---- MODULE Spec2Model ----
(***************************************************************************)
(* A model of riff-wave-reader (src/src/lib.rs): RiffWaveReader::new walks *)
(* a seekable byte stream through the RIFF header, the fmt chunk, the      *)
(* optional fact chunk, the other chunks and the data chunk header, and    *)
(* RiffWaveReader::data reads what is left of the stream.                  *)
(*                                                                         *)
(* A byte is a number in 0..255, the stream a sequence of bytes, the       *)
(* cursor the number of bytes before it.  u16 and u32 values are numbers;  *)
(* a u128 is kept as its four 32-bit limbs, most significant first.        *)
(***************************************************************************)
EXTENDS Integers, Sequences, FiniteSets

VARIABLES stream, pos, pc, err, riff_chunk, fmt_chunk, fact_chunk,
          other_chunks, data_chunk, fact_sub, payload, data_calls

vars == <<stream, pos, pc, err, riff_chunk, fmt_chunk, fact_chunk,
          other_chunks, data_chunk, fact_sub, payload, data_calls>>

(***************************************************************************)
(* Bounds of the input streams and of the run.                             *)
(***************************************************************************)
\* most chunks between fmt/fact and data in a generated stream
MaxOther == 2
\* largest payload of a generated other chunk
MaxPayload == 1
\* most bytes after the data chunk header in a generated stream
MaxTail == 1
\* most calls of data() on one reader
MaxDataCalls == 2

(***************************************************************************)
(* Bytes and tags.                                                         *)
(***************************************************************************)
RIFF == <<82, 73, 70, 70>>
WAVE == <<87, 65, 86, 69>>
FMT == <<102, 109, 116, 32>>
DATA == <<100, 97, 116, 97>>
DATA_CAP == <<68, 97, 116, 97>>
FACT == <<102, 97, 99, 116>>
\* tags the classifier does not know
LIST == <<76, 73, 83, 84>>
RIFX == <<82, 73, 70, 88>>
AVI == <<65, 86, 73, 32>>

\* the least size of an extended info block
MinExtendedInfo == 22
\* the bytes of a fact chunk's body that hold sample_length
FactFixed == 4
\* the distance a lookahead seeks back
TagWidth == 4

NoValue == [some |-> FALSE]

(***************************************************************************)
(* FourCC::from(&[u8]): the six spellings of the five known tags, and the  *)
(* bytes kept as they are for every other tag.                             *)
(***************************************************************************)
\* a classifier without the fact arm
FourCCFromLoose(data) ==
    IF data = RIFF THEN [variant |-> "Riff", text |-> <<>>]
    ELSE IF data = WAVE THEN [variant |-> "Wave", text |-> <<>>]
    ELSE IF data = FMT THEN [variant |-> "Fmt", text |-> <<>>]
    ELSE IF data = DATA THEN [variant |-> "Data", text |-> <<>>]
    ELSE IF data = DATA_CAP THEN [variant |-> "Data", text |-> <<>>]
    ELSE [variant |-> "Other", text |-> data]

FourCCFrom(data) ==
    IF data = RIFF THEN [variant |-> "Riff", text |-> <<>>]
    ELSE IF data = WAVE THEN [variant |-> "Wave", text |-> <<>>]
    ELSE IF data = FMT THEN [variant |-> "Fmt", text |-> <<>>]
    ELSE IF data = DATA THEN [variant |-> "Data", text |-> <<>>]
    ELSE IF data = DATA_CAP THEN [variant |-> "Data", text |-> <<>>]
    ELSE IF data = FACT THEN [variant |-> "Fact", text |-> <<>>]
    ELSE [variant |-> "Other", text |-> data]

Riff == [variant |-> "Riff", text |-> <<>>]
Wave == [variant |-> "Wave", text |-> <<>>]
Fmt == [variant |-> "Fmt", text |-> <<>>]
Data == [variant |-> "Data", text |-> <<>>]
Fact == [variant |-> "Fact", text |-> <<>>]

(***************************************************************************)
(* Format::from(u16).                                                      *)
(***************************************************************************)
FormatFrom(format) ==
    IF format = 1 THEN [variant |-> "UncompressedPCM", code |-> 0]
    ELSE IF format = 3 THEN [variant |-> "IeeeFloatingPoint", code |-> 0]
    ELSE IF format = 6 THEN [variant |-> "G711ALaw", code |-> 0]
    ELSE IF format = 7 THEN [variant |-> "G711ULaw", code |-> 0]
    ELSE IF format = 65534 THEN [variant |-> "ExtendedWave", code |-> 0]
    ELSE [variant |-> "Other", code |-> format]

(***************************************************************************)
(* LittleEndian::read_u16 / read_u32 / read_u128 of a filled buffer.       *)
(***************************************************************************)
\* the bytes read most significant first
RECURSIVE BigEndian(_)
BigEndian(buf) ==
    IF buf = <<>> THEN 0
    ELSE buf[Len(buf)] + 256 * BigEndian(SubSeq(buf, 1, Len(buf) - 1))

RECURSIVE LittleEndian(_)
LittleEndian(buf) ==
    IF buf = <<>> THEN 0 ELSE Head(buf) + 256 * LittleEndian(Tail(buf))

LittleEndianU128(buf) ==
    <<LittleEndian(SubSeq(buf, 13, 16)), LittleEndian(SubSeq(buf, 9, 12)),
      LittleEndian(SubSeq(buf, 5, 8)), LittleEndian(SubSeq(buf, 1, 4))>>

(***************************************************************************)
(* read_exact at cursor p: it fills a buffer of n bytes and moves the      *)
(* cursor past them, or fails when fewer than n bytes are left.  A failed  *)
(* read leaves the cursor where the source's read_exact leaves it, which   *)
(* std::io::Read does not specify: anywhere from p to the end (FailedAt).  *)
(***************************************************************************)
ReadExact(p, n) ==
    IF p + n <= Len(stream)
    THEN [ok |-> TRUE, pos |-> p + n, buf |-> SubSeq(stream, p + 1, p + n)]
    ELSE [ok |-> FALSE, pos |-> p, buf |-> <<>>]

FailedAt(p) == p .. Len(stream)

\* the results of a decoder: a value and the cursor after it, or an error
\* and the cursor at which the failing step began
Ok(p, v) == [err |-> "None", pos |-> p, val |-> v]
Fail(e, p) == [err |-> e, pos |-> p, val |-> NoValue]

\* `?` on a decoder's result r, as at lib.rs:92: its error returned as it
\* is, else the rest of the function, next, run on the value read
Try(r, next(_)) ==
    CHOOSE out \in { IF x.err # "None" THEN x ELSE next(x) : x \in {r} } : TRUE

\* a seek that leaves the cursor where it is
SeekCurrentStay(p, off) == p

\* seek(SeekFrom::Current(off))
SeekCurrent(p, off) == p + off

\* a buffer of n bytes filled by read_exact
read_bytes(p, n) ==
    LET r == ReadExact(p, n)
    IN  IF r.ok THEN Ok(r.pos, r.buf) ELSE Fail("IOError", r.pos)

\* the four primitive readers: their buffer's value and the cursor after it
read_fourcc(p) ==
    Try(read_bytes(p, 4), LAMBDA buf : Ok(buf.pos, FourCCFrom(buf.val)))

read_u32(p) ==
    Try(read_bytes(p, 4), LAMBDA buf : Ok(buf.pos, LittleEndian(buf.val)))

read_u16(p) ==
    Try(read_bytes(p, 2), LAMBDA buf : Ok(buf.pos, LittleEndian(buf.val)))

read_u128(p) ==
    Try(read_bytes(p, 16), LAMBDA buf : Ok(buf.pos, LittleEndianU128(buf.val)))

(***************************************************************************)
(* read_riff_chunk: tag, 32-bit size, container type, all three read       *)
(* before new looks at any of them.                                        *)
(***************************************************************************)
read_riff_chunk(p) ==
    Try(read_fourcc(p), LAMBDA id :
    Try(read_u32(id.pos), LAMBDA file_size :
    Try(read_fourcc(file_size.pos), LAMBDA file_type :
        Ok(file_type.pos, [id |-> id.val, file_size |-> file_size.val,
                           file_type |-> file_type.val]))))

(***************************************************************************)
(* read_is_fourcc: read a tag, seek back over it, and tell whether it is   *)
(* one of the known tags.                                                  *)
(***************************************************************************)
read_is_fourcc(p) ==
    Try(read_fourcc(p), LAMBDA fourcc :
        Ok(SeekCurrent(fourcc.pos, -TagWidth), fourcc.val.variant # "Other"))

(***************************************************************************)
(* read_extended_info(size).                                               *)
(***************************************************************************)
\* the remaining size without the 22 bytes already read taken off
ExtendedInfoRest(size) == size

ExtendedInfoRemaining(size) == size - MinExtendedInfo

read_extended_info(p, size) ==
    IF size = 0 THEN Ok(p, NoValue)
    ELSE IF size < MinExtendedInfo THEN Fail("InvalidExtendedInfo", p)
    ELSE
    Try(read_u16(p), LAMBDA sample_info :
    Try(read_u32(sample_info.pos), LAMBDA channel_mask :
    Try(read_u128(channel_mask.pos), LAMBDA sub_format :
    Try(read_bytes(sub_format.pos, ExtendedInfoRemaining(size)),
        LAMBDA remaining_data :
        Ok(remaining_data.pos,
           [sample_info |-> sample_info.val,
            channel_mask |-> channel_mask.val,
            sub_format |-> sub_format.val,
            remaining_data |-> remaining_data.val])))))

(***************************************************************************)
(* read_fmt_chunk: the tag, the declared size, the 16-byte format body,    *)
(* then the lookahead that decides whether an extra-info size field and    *)
(* the extended info follow.                                               *)
(***************************************************************************)
read_fmt_chunk(p) ==
    Try(read_fourcc(p), LAMBDA id :
        IF id.val # Fmt THEN Fail("InvalidFmtChunk", id.pos) ELSE
    Try(read_u32(id.pos), LAMBDA data_size :
    Try(read_u16(data_size.pos), LAMBDA format :
    Try(read_u16(format.pos), LAMBDA num_channels :
    Try(read_u32(num_channels.pos), LAMBDA sample_rate :
    Try(read_u32(sample_rate.pos), LAMBDA byte_rate :
    Try(read_u16(byte_rate.pos), LAMBDA block_align :
    Try(read_u16(block_align.pos), LAMBDA bits_per_sample :
    Try(read_is_fourcc(bits_per_sample.pos), LAMBDA is_fourcc :
    Try(IF is_fourcc.val THEN Ok(is_fourcc.pos, 0)
        ELSE read_u16(is_fourcc.pos), LAMBDA extra_info_size :
    Try(IF is_fourcc.val THEN Ok(is_fourcc.pos, NoValue)
        ELSE read_extended_info(extra_info_size.pos, extra_info_size.val),
        LAMBDA extended_info :
        Ok(extended_info.pos,
           [id |-> id.val, data_size |-> data_size.val,
            format |-> FormatFrom(format.val),
            num_channels |-> num_channels.val,
            sample_rate |-> sample_rate.val, byte_rate |-> byte_rate.val,
            block_align |-> block_align.val,
            bits_per_sample |-> bits_per_sample.val,
            extra_info_size |-> extra_info_size.val,
            extended_info |-> extended_info.val]))))))))))))

(***************************************************************************)
(* read_fact_chunk.  data_size - 4 is a u32 subtraction: with data_size    *)
(* below 4 a build with overflow checks panics there, and a build without  *)
(* them wraps to 2^32 - 4 + data_size, more bytes than any stream of the   *)
(* model holds, so the read_exact that follows fails.  FactSub is how the  *)
(* subtraction went: "none" when it was not reached.                       *)
(***************************************************************************)
Builds == {"checked", "unchecked"}

FactSub(p, build) ==
    LET r == Try(read_fourcc(p), LAMBDA id :
                 IF id.val # Fact THEN Fail("NotFact", id.pos) ELSE
             Try(read_u32(id.pos), LAMBDA data_size :
             Try(read_u32(data_size.pos), LAMBDA sample_length :
                 Ok(sample_length.pos, data_size.val))))
    IN  IF r.err # "None" THEN "none"
        ELSE IF r.val >= FactFixed THEN "exact"
        ELSE IF build = "checked" THEN "panicked" ELSE "wrapped"

read_fact_chunk(p, build) ==
    Try(read_fourcc(p), LAMBDA id :
        IF id.val # Fact THEN Ok(SeekCurrent(id.pos, -TagWidth), NoValue) ELSE
    Try(read_u32(id.pos), LAMBDA data_size :
    Try(read_u32(data_size.pos), LAMBDA sample_length :
        IF data_size.val < FactFixed
        THEN IF build = "checked" THEN Fail("Panic", sample_length.pos)
             ELSE Fail("IOError", sample_length.pos) ELSE
    Try(read_bytes(sample_length.pos, data_size.val - FactFixed),
        LAMBDA remaining_data :
        Ok(remaining_data.pos,
           [id |-> id.val, data_size |-> data_size.val,
            sample_length |-> sample_length.val,
            remaining_data |-> remaining_data.val])))))

(***************************************************************************)
(* One turn of the loop of read_other_chunks: NoValue when the tag read is *)
(* data (the loop seeks back and returns), else the chunk it pushes.       *)
(***************************************************************************)
\* a turn that seeks back to the tag after reading the chunk
read_other_chunk_rewound(p) ==
    Try(read_fourcc(p), LAMBDA fourcc :
        IF fourcc.val = Data
        THEN Ok(SeekCurrent(fourcc.pos, -TagWidth), NoValue) ELSE
    Try(read_u32(fourcc.pos), LAMBDA data_size :
    Try(read_bytes(data_size.pos, data_size.val), LAMBDA data :
        Ok(SeekCurrent(fourcc.pos, -TagWidth),
           [id |-> fourcc.val, data_size |-> data_size.val,
            data |-> data.val]))))

read_other_chunk(p) ==
    Try(read_fourcc(p), LAMBDA fourcc :
        IF fourcc.val = Data
        THEN Ok(SeekCurrent(fourcc.pos, -TagWidth), NoValue) ELSE
    Try(read_u32(fourcc.pos), LAMBDA data_size :
    Try(read_bytes(data_size.pos, data_size.val), LAMBDA data :
        Ok(data.pos, [id |-> fourcc.val, data_size |-> data_size.val,
                      data |-> data.val]))))

(***************************************************************************)
(* read_data_chunk: the tag and the declared size, whatever the tag is.    *)
(***************************************************************************)
read_data_chunk(p) ==
    Try(read_fourcc(p), LAMBDA id :
    Try(read_u32(id.pos), LAMBDA data_size :
        Ok(data_size.pos,
           [id |-> id.val, data_size |-> data_size.val,
            pad_byte |-> IF data_size.val % 2 = 0 THEN 0 ELSE 1])))

\* a read that stops at the declared size of the data chunk
read_to_end_clamped(p) ==
    LET n == IF Len(stream) - p < data_chunk.data_size
             THEN Len(stream) - p ELSE data_chunk.data_size
    IN  Ok(p + n, SubSeq(stream, p + 1, p + n))

\* read_to_end from cursor p
read_to_end(p) == Ok(Len(stream), SubSeq(stream, p + 1, Len(stream)))

(***************************************************************************)
(* The input streams.  Every byte sequence is an input the reader can be   *)
(* given; the model reads the streams below: laid-out files with each     *)
(* part drawn from a few shapes (Documents), files with a wrong tag at    *)
(* the start (Headers), and every prefix of some of them (Truncated).      *)
(***************************************************************************)
U16(n) == <<n % 256, n \div 256>>
U32(n) == <<n % 256, (n \div 256) % 256, (n \div 65536) % 256, n \div 16777216>>

RiffHeader(tag, type) == tag \o U32(292) \o type

FmtHead(tag, size, format) ==
    tag \o U32(size) \o U16(format) \o U16(2) \o U32(8000) \o U32(32000)
        \o U16(4) \o U16(16)

ExtBody == U16(16) \o U32(3) \o <<1, 2, 3, 4, 5, 6, 7, 8, 9, 10, 11, 12, 13, 14, 15, 16>>

\* the declared fmt size, what follows the 16-byte body, the format code
FmtShapes ==
    { <<16, <<>>, 1>>, <<18, <<>>, 3>>, <<40, <<>>, 85>>,
      <<16, U16(0), 6>>, <<18, U16(0), 7>>,
      <<18, U16(10), 1>>,
      <<40, U16(22) \o ExtBody, 65534>>, <<16, U16(22) \o ExtBody, 1>>,
      <<41, U16(23) \o ExtBody \o <<99>>, 65534>> }

FactShapes ==
    { <<>>,
      FACT \o U32(4) \o U32(100),
      FACT \o U32(5) \o U32(100) \o <<55>>,
      FACT \o U32(3) \o U32(100) }

Payload(n) == [i \in 1 .. n |-> 64 + i]

\* a run of k chunks: tags first, next, first, ... each with n payload bytes
OtherChunkBytes(tag, n) == tag \o U32(n) \o Payload(n)

RECURSIVE OtherRun(_, _, _, _)
OtherRun(k, first, next, n) ==
    IF k = 0 THEN <<>>
    ELSE OtherChunkBytes(first, n) \o OtherRun(k - 1, next, first, n)

OtherRuns ==
    { OtherRun(k, first, next, n) :
        k \in 0 .. MaxOther, first \in {LIST, FACT, WAVE, FMT, RIFF},
        next \in {LIST, FACT}, n \in 0 .. MaxPayload }

DataShapes ==
    { <<>> }
    \cup { tag \o U32(size) \o Payload(t) :
             tag \in {DATA, DATA_CAP}, size \in {0, 3}, t \in 0 .. MaxTail }

Document(f, fact, run, d) ==
    RiffHeader(RIFF, WAVE) \o FmtHead(FMT, f[1], f[3]) \o f[2] \o fact \o run \o d

\* every fmt and fact shape before no chunk or one LIST chunk, and every
\* run of chunks and data shape after a plain fmt chunk
Documents ==
    { Document(f, fact, run, d) :
        f \in FmtShapes, fact \in FactShapes,
        run \in {<<>>, OtherChunkBytes(LIST, 1)},
        d \in {<<>>, DATA \o U32(0), DATA_CAP \o U32(3) \o Payload(1)} }
    \cup
    { Document(f, fact, run, d) :
        f \in { <<16, <<>>, 1>>, <<18, U16(0), 7>> },
        fact \in {<<>>, FACT \o U32(4) \o U32(100)},
        run \in OtherRuns, d \in DataShapes }

Prefixes(s) == { SubSeq(s, 1, k) : k \in 0 .. Len(s) }

Headers ==
    UNION { Prefixes(RiffHeader(tag, type) \o FmtHead(fmt, 16, 1)
                       \o DATA \o U32(1) \o Payload(1)) :
              tag \in {RIFF, RIFX, WAVE}, type \in {WAVE, AVI},
              fmt \in {FMT, LIST} }

Truncated ==
    UNION { Prefixes(RiffHeader(RIFF, WAVE) \o FmtHead(FMT, 41, 65534)
                       \o U16(23) \o ExtBody \o <<99>>
                       \o fact \o LIST \o U32(1) \o Payload(1)
                       \o DATA \o U32(3) \o Payload(1)) :
              fact \in {<<>>, FACT \o U32(5) \o U32(100) \o <<55>>} }

Streams == Documents \cup Headers \cup Truncated

(***************************************************************************)
(* The state before RiffWaveReader::new runs on a stream.                  *)
(***************************************************************************)
Init ==
    /\ stream \in Streams
    /\ pos = 0
    /\ pc = "riff"
    /\ err = "None"
    /\ riff_chunk = NoValue
    /\ fmt_chunk = NoValue
    /\ fact_chunk = NoValue
    /\ other_chunks = <<>>
    /\ data_chunk = NoValue
    /\ fact_sub = "none"
    /\ payload = <<>>
    /\ data_calls = 0

\* a decoder's error ends new: `?` returns it, a panic unwinds
Abort(r) ==
    /\ pc' = "failed"
    /\ err' = r.err
    /\ pos' \in (IF r.err = "IOError" THEN FailedAt(r.pos) ELSE {r.pos})

\* new with the container type checked before the tag
ReadRiffChunkWaveFirst ==
    /\ pc = "riff"
    /\ \E r \in {read_riff_chunk(pos)} :
           IF r.err # "None"
           THEN Abort(r) /\ UNCHANGED riff_chunk
           ELSE IF r.val.file_type # Wave
           THEN Abort(Fail("NotWave", r.pos)) /\ UNCHANGED riff_chunk
           ELSE IF r.val.id # Riff
           THEN Abort(Fail("NotRiff", r.pos)) /\ UNCHANGED riff_chunk
           ELSE /\ riff_chunk' = r.val
                /\ pos' = r.pos
                /\ pc' = "fmt"
                /\ UNCHANGED err
    /\ UNCHANGED <<stream, fmt_chunk, fact_chunk, other_chunks, data_chunk,
                   fact_sub, payload, data_calls>>

\* new, lines 23-31: the RIFF header and the two checks on it
ReadRiffChunk ==
    /\ pc = "riff"
    /\ \E r \in {read_riff_chunk(pos)} :
           IF r.err # "None"
           THEN Abort(r) /\ UNCHANGED riff_chunk
           ELSE IF r.val.id # Riff
           THEN Abort(Fail("NotRiff", r.pos)) /\ UNCHANGED riff_chunk
           ELSE IF r.val.file_type # Wave
           THEN Abort(Fail("NotWave", r.pos)) /\ UNCHANGED riff_chunk
           ELSE /\ riff_chunk' = r.val
                /\ pos' = r.pos
                /\ pc' = "fmt"
                /\ UNCHANGED err
    /\ UNCHANGED <<stream, fmt_chunk, fact_chunk, other_chunks, data_chunk,
                   fact_sub, payload, data_calls>>

\* new, line 33
ReadFmtChunk ==
    /\ pc = "fmt"
    /\ \E r \in {read_fmt_chunk(pos)} :
           IF r.err # "None"
           THEN Abort(r) /\ UNCHANGED fmt_chunk
           ELSE /\ fmt_chunk' = r.val
                /\ pos' = r.pos
                /\ pc' = "fact"
                /\ UNCHANGED err
    /\ UNCHANGED <<stream, riff_chunk, fact_chunk, other_chunks, data_chunk,
                   fact_sub, payload, data_calls>>

\* new, line 35
ReadFactChunk ==
    /\ pc = "fact"
    /\ \E build \in Builds :
       \E r \in {read_fact_chunk(pos, build)} :
             /\ fact_sub' = FactSub(pos, build)
             /\ IF r.err # "None"
                THEN Abort(r) /\ UNCHANGED fact_chunk
                ELSE /\ fact_chunk' = r.val
                     /\ pos' = r.pos
                     /\ pc' = "other"
                     /\ UNCHANGED err
    /\ UNCHANGED <<stream, riff_chunk, fmt_chunk, other_chunks, data_chunk,
                   payload, data_calls>>

\* new, lines 37-38: one turn of the loop of read_other_chunks
ReadOtherChunks ==
    /\ pc = "other"
    /\ \E r \in {read_other_chunk(pos)} :
           IF r.err # "None"
           THEN Abort(r) /\ UNCHANGED other_chunks
           ELSE IF r.val # NoValue
           THEN /\ other_chunks' = Append(other_chunks, r.val)
                /\ pos' = r.pos
                /\ UNCHANGED <<pc, err>>
           ELSE /\ pos' = r.pos
                /\ pc' = "data"
                /\ UNCHANGED <<other_chunks, err>>
    /\ UNCHANGED <<stream, riff_chunk, fmt_chunk, fact_chunk, data_chunk,
                   fact_sub, payload, data_calls>>

\* new, lines 40-51
ReadDataChunk ==
    /\ pc = "data"
    /\ \E r \in {read_data_chunk(pos)} :
           IF r.err # "None"
           THEN Abort(r) /\ UNCHANGED data_chunk
           ELSE /\ data_chunk' = r.val
                /\ pos' = r.pos
                /\ pc' = "done"
                /\ UNCHANGED err
    /\ UNCHANGED <<stream, riff_chunk, fmt_chunk, fact_chunk, other_chunks,
                   fact_sub, payload, data_calls>>

\* RiffWaveReader::data
ReadData ==
    /\ pc = "done"
    /\ data_calls < MaxDataCalls
    /\ \E r \in {read_to_end(pos)} :
           /\ payload' = r.val
           /\ pos' = r.pos
    /\ data_calls' = data_calls + 1
    /\ UNCHANGED <<stream, pc, err, riff_chunk, fmt_chunk, fact_chunk,
                   other_chunks, data_chunk, fact_sub>>

Next ==
    \/ ReadRiffChunk
    \/ ReadFmtChunk
    \/ ReadFactChunk
    \/ ReadOtherChunks
    \/ ReadDataChunk
    \/ ReadData

Spec == Init /\ [][Next]_vars

\* the code runs to its end: no step that can be taken is put off for ever
FairSpec == Spec /\ WF_vars(Next)

(***************************************************************************)
(* What the claims speak of, read off the stream itself.                   *)
(***************************************************************************)
\* the bytes at offsets a .. b-1
Bytes(a, b) == SubSeq(stream, a + 1, b)

\* the 4 bytes at offset p, or nothing when the stream ends before them
TagAt(p) == IF p + 4 <= Len(stream) THEN Bytes(p, p + 4) ELSE <<>>

KnownTags == {RIFF, WAVE, FMT, DATA, DATA_CAP, FACT}

\* the RIFF header: tag, size, container type
RiffLen == 4 + 4 + 4
\* the end of the fmt chunk's 16-byte format body: its tag and size first
FmtBodyEnd == RiffLen + 4 + 4 + 16
\* the end of the extra-info size field, when there is one
SizeFieldEnd == FmtBodyEnd + 2

FirstTagNotRiff == Len(stream) >= 4 /\ TagAt(0) # RIFF

\* new has read the fmt chunk's body and looked at the tag after it
PeekedAfterFmt ==
    /\ riff_chunk # NoValue
    /\ Len(stream) >= FmtBodyEnd + 4
    /\ TagAt(RiffLen) = FMT
    /\ pc # "fmt"

\* new ended inside read_fmt_chunk
FailedInFmt == pc = "failed" /\ riff_chunk # NoValue /\ fmt_chunk = NoValue

\* the declared extra-info size, when the size field is there
DeclaredExtra == LittleEndian(Bytes(FmtBodyEnd, SizeFieldEnd))

(***************************************************************************)
(* C1 as the spec states it: a stream whose first 4 bytes are not RIFF,    *)
(* whatever follows and however short it is, makes new fail with NotRiff   *)
(* with the cursor no further than those 4 bytes.                          *)
(***************************************************************************)
C1_NotRiffAtOnce ==
    (pc # "riff" /\ FirstTagNotRiff)
        => (pc = "failed" /\ err = "NotRiff" /\ pos <= 4)

(***************************************************************************)
(* C1, amended: a stream of at least 12 bytes whose first 4 bytes are not  *)
(* RIFF makes new fail with NotRiff once read_riff_chunk has read the      *)
(* whole 12-byte header (cursor at 12); a stream that ends before byte 12  *)
(* fails with an I/O error instead, its cursor within the stream.          *)
(***************************************************************************)
C1_NotRiffAfterHeader ==
    (pc # "riff" /\ FirstTagNotRiff)
        => /\ pc = "failed"
           /\ IF Len(stream) >= RiffLen
              THEN err = "NotRiff" /\ pos = RiffLen
              ELSE err = "IOError" /\ pos <= Len(stream)

C1_Witness ==
    /\ FirstTagNotRiff
    /\ Len(stream) > RiffLen
    /\ Bytes(8, 12) # WAVE
    /\ err = "NotRiff"

C1_WitnessShort ==
    FirstTagNotRiff /\ Len(stream) < RiffLen /\ err = "IOError"

(***************************************************************************)
(* C5: extended info by the declared 16-bit size s read after the fmt      *)
(* body.  s = 0: no ExtendedInfo and nothing more read.  0 < s < 22:       *)
(* InvalidExtendedInfo.  s >= 22: sample info (16 bits), channel mask (32  *)
(* bits), sub-format (128 bits) and s - 22 further bytes are read, so the  *)
(* cursor ends exactly s bytes past the size field; when the stream holds  *)
(* fewer than s bytes there, the read fails with an I/O error.             *)
(***************************************************************************)
C5_ExtendedInfoBySize ==
    (PeekedAfterFmt /\ TagAt(FmtBodyEnd) \notin KnownTags)
    => LET s == DeclaredExtra
           e == fmt_chunk.extended_info
       IN  /\ (s = 0 \/ (s >= 22 /\ Len(stream) >= SizeFieldEnd + s))
                  => ~FailedInFmt
           /\ (0 < s /\ s < 22)
                  => (FailedInFmt /\ err = "InvalidExtendedInfo"
                        /\ pos = SizeFieldEnd)
           /\ (s >= 22 /\ Len(stream) < SizeFieldEnd + s)
                  => (FailedInFmt /\ err = "IOError")
           /\ pc = "fact"
                  => /\ fmt_chunk.extra_info_size = s
                     /\ pos = SizeFieldEnd + s
                     /\ s = 0 => e = NoValue
                     /\ s >= 22 =>
                          /\ e # NoValue
                          /\ e.sample_info
                               = LittleEndian(Bytes(SizeFieldEnd, SizeFieldEnd + 2))
                          /\ e.channel_mask
                               = LittleEndian(Bytes(SizeFieldEnd + 2, SizeFieldEnd + 6))
                          /\ e.sub_format
                               = LittleEndianU128(Bytes(SizeFieldEnd + 6, SizeFieldEnd + 22))
                          /\ e.remaining_data
                               = Bytes(SizeFieldEnd + 22, SizeFieldEnd + s)

C5_Witness ==
    /\ pc = "fact"
    /\ TagAt(FmtBodyEnd) \notin KnownTags
    /\ DeclaredExtra > 22
    /\ fmt_chunk.extended_info # NoValue
    /\ Len(fmt_chunk.extended_info.remaining_data) = DeclaredExtra - 22

(***************************************************************************)
(* C6: when the 4 bytes after the fmt body are RIFF, WAVE, "fmt ", data,   *)
(* Data or fact, read_fmt_chunk succeeds with extended_info absent and     *)
(* extra_info_size 0 whatever data_size the chunk declares, and no size    *)
(* field is read: the cursor is still at the end of the body.              *)
(***************************************************************************)
C6_KnownTagNoExtendedInfo ==
    (PeekedAfterFmt /\ TagAt(FmtBodyEnd) \in KnownTags)
    => /\ ~FailedInFmt
       /\ fmt_chunk # NoValue
       /\ fmt_chunk.extra_info_size = 0
       /\ fmt_chunk.extended_info = NoValue
       /\ fmt_chunk.data_size = LittleEndian(Bytes(RiffLen + 4, RiffLen + 8))
       /\ pc = "fact" => pos = FmtBodyEnd

C6_Witness ==
    /\ pc = "fact"
    /\ TagAt(FmtBodyEnd) = FACT
    /\ fmt_chunk.data_size > 18
    /\ fmt_chunk.extra_info_size = 0

(***************************************************************************)
(* C7: when new has succeeded the cursor is just after the 8-byte header   *)
(* of a data (or Data) chunk whose declared size is data_chunk.data_size;  *)
(* the first data() returns every byte from there to the end of the        *)
(* stream, in order, whatever that declared size is, and leaves the cursor *)
(* at the end; a second data() returns nothing.                            *)
(***************************************************************************)
AfterDataHeader(h) ==
    /\ h >= 8
    /\ Bytes(h - 8, h - 4) \in {DATA, DATA_CAP}
    /\ data_chunk.data_size = LittleEndian(Bytes(h - 4, h))

C7_DataReadsToEnd ==
    /\ (pc = "done" /\ data_calls = 0) => AfterDataHeader(pos)
    /\ data_calls >= 1 => pos = Len(stream)
    /\ data_calls = 1 =>
          /\ AfterDataHeader(Len(stream) - Len(payload))
          /\ payload = Bytes(Len(stream) - Len(payload), Len(stream))
    /\ data_calls >= 2 => payload = <<>>

C7_Witness ==
    /\ data_calls = 1
    /\ Len(payload) > data_chunk.data_size

C7_WitnessFewer ==
    /\ data_calls = 1
    /\ payload # <<>>
    /\ Len(payload) < data_chunk.data_size

(***************************************************************************)
(* C8: a lookahead that does not consume leaves the cursor where it was.   *)
(* After read_fmt_chunk's peek the next read starts at the first byte of   *)
(* the peeked tag (the size field, or the fact decoder); read_fact_chunk   *)
(* on a tag that is not fact, and the scan of the other chunks on a data   *)
(* tag, leave the cursor unmoved, and read_data_chunk then reads that tag. *)
(***************************************************************************)
C8_LookaheadRestoresCursor ==
    [][ /\ (pc = "fmt" /\ pc' = "fact")
            => IF TagAt(FmtBodyEnd) \in KnownTags
               THEN pos' = FmtBodyEnd
               ELSE /\ fmt_chunk'.extra_info_size = DeclaredExtra
                    /\ pos' >= SizeFieldEnd
        /\ (pc = "fact" /\ pc' = "other" /\ TagAt(pos) # FACT)
            => (pos' = pos /\ fact_chunk' = NoValue)
        /\ (pc = "fact" /\ pc' = "other" /\ TagAt(pos) = FACT)
            => (fact_chunk' # NoValue /\ pos' >= pos + 12)
        /\ (pc = "other" /\ pc' = "data")
            => (pos' = pos /\ TagAt(pos) \in {DATA, DATA_CAP})
        /\ (pc = "data" /\ pc' = "done")
            => (pos' = pos + 8 /\ data_chunk'.id = Data
                  /\ TagAt(pos) \in {DATA, DATA_CAP})
      ]_vars

C8_Witness ==
    /\ pc = "done"
    /\ fact_chunk = NoValue
    /\ fmt_chunk.extra_info_size = 0
    /\ other_chunks = <<>>
    /\ TagAt(FmtBodyEnd) \in {DATA, DATA_CAP}
    /\ pos = FmtBodyEnd + 8

(***************************************************************************)
(* C9: the scan of the other chunks ends on every stream.  A turn that     *)
(* does not end it pushes the chunk just read, in stream order, and moves  *)
(* the cursor on by at least 8 bytes; the scan ends on a peeked data tag   *)
(* with the chunks collected so far, or with an I/O error at the first     *)
(* read that runs out of bytes.                                            *)
(***************************************************************************)
C9_ScanTerminates ==
    /\ [][ pc = "other" =>
             /\ pc' = "other" =>
                  /\ pos' >= pos + 8
                  /\ Len(other_chunks') = Len(other_chunks) + 1
                  /\ SubSeq(other_chunks', 1, Len(other_chunks)) = other_chunks
                  /\ other_chunks'[Len(other_chunks')].data
                       = Bytes(pos + 8, pos')
             /\ pc' = "data" =>
                  /\ other_chunks' = other_chunks
                  /\ TagAt(pos) \in {DATA, DATA_CAP}
             /\ pc' = "failed" =>
                  /\ err' = "IOError"
                  /\ TagAt(pos) \notin {DATA, DATA_CAP}
         ]_vars
    /\ (pc = "other") ~> (pc \in {"data", "failed"})

C9_Witness ==
    /\ pc = "data"
    /\ Len(other_chunks) >= 2

C9_WitnessFails ==
    /\ pc = "failed"
    /\ err = "IOError"
    /\ Len(other_chunks) >= 2

(***************************************************************************)
(* The documented layout, written back from the decoded fields: tags as    *)
(* their 4 bytes (data for the Data variant), integers little-endian, the  *)
(* extra-info size field and the extended info when the fmt chunk declares *)
(* more than its 16-byte body, chunks in the order they were read.         *)
(***************************************************************************)
FmtBodySize == 2 + 2 + 4 + 4 + 2 + 2

SerFourCC(f) ==
    CASE f.variant = "Riff" -> RIFF
      [] f.variant = "Wave" -> WAVE
      [] f.variant = "Fmt" -> FMT
      [] f.variant = "Data" -> DATA
      [] f.variant = "Fact" -> FACT
      [] OTHER -> f.text

SerFormat(f) ==
    CASE f.variant = "UncompressedPCM" -> U16(1)
      [] f.variant = "IeeeFloatingPoint" -> U16(3)
      [] f.variant = "G711ALaw" -> U16(6)
      [] f.variant = "G711ULaw" -> U16(7)
      [] f.variant = "ExtendedWave" -> U16(65534)
      [] OTHER -> U16(f.code)

SerU128(limbs) ==
    U32(limbs[4]) \o U32(limbs[3]) \o U32(limbs[2]) \o U32(limbs[1])

SerExtendedInfo(e) ==
    IF e = NoValue THEN <<>>
    ELSE U16(e.sample_info) \o U32(e.channel_mask) \o SerU128(e.sub_format)
           \o e.remaining_data

SerRiff(c) == SerFourCC(c.id) \o U32(c.file_size) \o SerFourCC(c.file_type)

SerFmt(c) ==
    SerFourCC(c.id) \o U32(c.data_size) \o SerFormat(c.format)
      \o U16(c.num_channels) \o U32(c.sample_rate) \o U32(c.byte_rate)
      \o U16(c.block_align) \o U16(c.bits_per_sample)
      \o (IF c.data_size > FmtBodySize
          THEN U16(c.extra_info_size) \o SerExtendedInfo(c.extended_info)
          ELSE <<>>)

SerFact(c) ==
    IF c = NoValue THEN <<>>
    ELSE SerFourCC(c.id) \o U32(c.data_size) \o U32(c.sample_length)
           \o c.remaining_data

RECURSIVE SerOthers(_)
SerOthers(cs) ==
    IF cs = <<>> THEN <<>>
    ELSE SerFourCC(Head(cs).id) \o U32(Head(cs).data_size) \o Head(cs).data
           \o SerOthers(Tail(cs))

SerData(c) == SerFourCC(c.id) \o U32(c.data_size)

Serialize ==
    SerRiff(riff_chunk) \o SerFmt(fmt_chunk) \o SerFact(fact_chunk)
      \o SerOthers(other_chunks) \o SerData(data_chunk)

\* new has returned Ok and data() has not been called
Decoded == pc = "done" /\ data_calls = 0

\* the fmt chunk has an extra-info size field
HasSizeField == TagAt(FmtBodyEnd) \notin KnownTags

\* where the fmt chunk ends
FmtEnd ==
    IF HasSizeField THEN SizeFieldEnd + fmt_chunk.extra_info_size
    ELSE FmtBodyEnd

(***************************************************************************)
(* C2 as the spec states it: a valid header, a valid fmt chunk with or     *)
(* without an extra-info size field, no fact chunk, one LIST chunk of n    *)
(* payload bytes and a data chunk header: new succeeds, other_chunks is    *)
(* that one chunk (tag, n, its n bytes) and data_chunk holds the declared  *)
(* size of the data header.                                                *)
(***************************************************************************)
ValidFmtShapes == { f \in FmtShapes : f[2] # U16(10) }

ListChunk(n) ==
    [id |-> [variant |-> "Other", text |-> LIST], data_size |-> n,
     data |-> Payload(n)]

C2_ListChunkKept ==
    \A f \in ValidFmtShapes, n \in 0 .. MaxPayload, tag \in {DATA, DATA_CAP},
       size \in {0, 3}, t \in 0 .. MaxTail :
        (/\ pc \in {"done", "failed"}
         /\ data_calls = 0
         /\ stream = Document(f, <<>>, OtherChunkBytes(LIST, n),
                              tag \o U32(size) \o Payload(t)))
        => /\ pc = "done"
           /\ fact_chunk = NoValue
           /\ other_chunks = <<ListChunk(n)>>
           /\ data_chunk.data_size = size

\* the stream of C2 whose fmt chunk has no size field: new has failed
C2_Witness ==
    /\ pc = "failed"
    /\ err = "IOError"
    /\ fmt_chunk = NoValue
    /\ stream = Document(<<16, <<>>, 1>>, <<>>, OtherChunkBytes(LIST, 1),
                         DATA \o U32(0))

(***************************************************************************)
(* C3 as the spec states it: whenever new succeeds, the decoded fields     *)
(* written back in the documented layout are the bytes of the stream from  *)
(* offset 0 to the end of the data chunk header.                           *)
(***************************************************************************)
C3_RoundTrip == Decoded => Serialize = Bytes(0, pos)

(***************************************************************************)
(* C3, amended: the same round trip for the streams whose data tag is      *)
(* spelled data and whose fmt chunk has the extra-info size field exactly  *)
(* when it declares more than the 16 bytes of its body.  (Data decodes to  *)
(* the same tag as data, and a size field of 0 to the same fields as no    *)
(* size field.)                                                            *)
(***************************************************************************)
C3_RoundTripCanonical ==
    (/\ Decoded
     /\ Bytes(pos - 8, pos - 4) = DATA
     /\ (fmt_chunk.data_size > FmtBodySize) <=> HasSizeField)
    => Serialize = Bytes(0, pos)

C3_Witness ==
    /\ Decoded
    /\ Bytes(pos - 8, pos - 4) = DATA
    /\ (fmt_chunk.data_size > FmtBodySize) <=> HasSizeField
    /\ fmt_chunk.extended_info # NoValue
    /\ fact_chunk # NoValue
    /\ other_chunks # <<>>
    /\ Serialize = Bytes(0, pos)

(***************************************************************************)
(* C4 as the spec states it: when the tag after the fmt chunk is fact and  *)
(* the chunk declares a size below 4, new ends with an error returned to   *)
(* the caller, and data_size - 4 neither wraps around nor panics.          *)
(***************************************************************************)
FactTooSmall ==
    /\ fmt_chunk # NoValue
    /\ Len(stream) >= FmtEnd + 12
    /\ TagAt(FmtEnd) = FACT
    /\ LittleEndian(Bytes(FmtEnd + 4, FmtEnd + 8)) < 4

C4_SmallFactRejected ==
    (FactTooSmall /\ pc # "fact")
        => /\ pc = "failed"
           /\ err \notin {"None", "Panic"}
           /\ fact_sub \notin {"wrapped", "panicked"}

C4_Witness == FactTooSmall /\ pc = "failed" /\ fact_sub = "panicked"

C4_WitnessWrapped ==
    FactTooSmall /\ pc = "failed" /\ fact_sub = "wrapped" /\ err = "IOError"

====
